---------------------------- MODULE Spec2Model ----------------------------
(***************************************************************************)
(* A model of the LifeBlock image generators:                              *)
(*   AppIcon/generate_icon.py                                              *)
(*   Marketing/Logos/generate_logos.py                                     *)
(*   Marketing/Logos/generate_lifeblock_logos.py                           *)
(*   Marketing/generate_banners.py                                         *)
(*   Marketing/Screenshots/generate_screenshots.py                         *)
(*                                                                         *)
(* Two levels are modelled.                                                *)
(*   SpecGrid / SpecLevels : one grid routine drawing its cells one by one *)
(*                           (two executions side by side, same arguments) *)
(*   Spec                  : one run of a script's main(), one step per    *)
(*                           Image.new / drawing pass / save / print       *)
(*                                                                         *)
(* Python numbers (int and float) are modelled as exact rationals <<n, d>> *)
(* in lowest terms with d > 0; the rounding error of binary floating point *)
(* is not modelled.                                                        *)
(***************************************************************************)
EXTENDS Integers, Sequences, FiniteSets, TLC

VARIABLES
    \* ---- grid level ----
    call,      \* the grid call being executed (routine and arguments)
    matrix,    \* the level/pattern matrix local to the routine
    k,         \* number of loop iterations completed
    last,      \* per execution: the last draw call emitted
    ndraws,    \* number of draw calls emitted (per execution, in lock step)
    same,      \* the two executions have emitted identical draw calls so far
    boxes,     \* the rectangles emitted so far (geometry is common to both)
    gstatus,   \* "idle" | "running" | "done" | "failed"
    \* ---- script level ----
    script,    \* which script's main() runs
    pc,        \* index of the next step of the script
    env,       \* Python variable -> image id
    images,    \* image id -> record
    disk,      \* files written, in order
    stdout,    \* lines printed, in order
    fonts,     \* font files that can be loaded on this machine
    lastFont,  \* result of the last get_font call
    status     \* "idle" | "running" | "done" | "failed"

gvars == <<call, matrix, k, last, ndraws, same, boxes, gstatus>>
svars == <<script, pc, env, images, disk, stdout, fonts, lastFont, status>>
vars  == <<call, matrix, k, last, ndraws, same, boxes, gstatus,
           script, pc, env, images, disk, stdout, fonts, lastFont, status>>

(***************************************************************************)
(* Bounds of the model (not program constants).                            *)
(***************************************************************************)
MaxOrigin == 3
MaxCell == 2
MaxGap == 1
MaxDim == 2
MaxLevel == 6
MaxIconSize == 12
MaxWidth == 4

(***************************************************************************)
(* Python arithmetic on exact rationals.                                   *)
(***************************************************************************)
Abs(n) == IF n < 0 THEN -n ELSE n

RECURSIVE GCD(_, _)
GCD(a, b) == IF b = 0 THEN a ELSE GCD(b, a % b)

\* the rational n/d in lowest terms, d > 0
Rat(n, d) ==
    LET s == IF d < 0 THEN -1 ELSE 1
        g == GCD(Abs(n), Abs(d))
    IN  <<(s * n) \div g, (s * d) \div g>>

RInt(i) == <<i, 1>>
RAdd(a, b) ==
    IF a[2] = 1 /\ b[2] = 1 THEN <<a[1] + b[1], 1>>
    ELSE Rat(a[1] * b[2] + b[1] * a[2], a[2] * b[2])
RSub(a, b) ==
    IF a[2] = 1 /\ b[2] = 1 THEN <<a[1] - b[1], 1>>
    ELSE Rat(a[1] * b[2] - b[1] * a[2], a[2] * b[2])
RMul(a, b) ==
    IF a[2] = 1 /\ b[2] = 1 THEN <<a[1] * b[1], 1>>
    ELSE Rat(a[1] * b[1], a[2] * b[2])
RDiv(a, b) == Rat(a[1] * b[2], a[2] * b[1])
RLess(a, b) == a[1] * b[2] < b[1] * a[2]
RLeq(a, b) == a[1] * b[2] <= b[1] * a[2]

\* Python int(x): truncation toward zero
PyInt(a) == IF a[1] >= 0 THEN a[1] \div a[2] ELSE -((-a[1]) \div a[2])

\* Python a // b on integers (floor division)
FloorDiv(a, b) == a \div b

\* list indexing that clamps the index into 0..len-1
PyIndexClamp(lst, i) ==
    IF i < 0 THEN [raised |-> FALSE, value |-> lst[1]]
    ELSE IF i >= Len(lst) THEN [raised |-> FALSE, value |-> lst[Len(lst)]]
    ELSE [raised |-> FALSE, value |-> lst[i + 1]]

(***************************************************************************)
(* Python list indexing: lst[i] accepts -len..len-1 and raises IndexError  *)
(* for every other index.                                                  *)
(***************************************************************************)
PyIndex(lst, i) ==
    IF i >= 0 /\ i < Len(lst) THEN [raised |-> FALSE, value |-> lst[i + 1]]
    ELSE IF i < 0 /\ i >= -Len(lst) THEN [raised |-> FALSE, value |-> lst[Len(lst) + i + 1]]
    ELSE [raised |-> TRUE, value |-> <<>>]

(***************************************************************************)
(* Colours.                                                                *)
(***************************************************************************)
HexDigit(c) ==
    CASE c = "0" -> 0 [] c = "1" -> 1 [] c = "2" -> 2 [] c = "3" -> 3
      [] c = "4" -> 4 [] c = "5" -> 5 [] c = "6" -> 6 [] c = "7" -> 7
      [] c = "8" -> 8 [] c = "9" -> 9 [] c = "A" -> 10 [] c = "B" -> 11
      [] c = "C" -> 12 [] c = "D" -> 13 [] c = "E" -> 14 [] c = "F" -> 15

RECURSIVE LStripHash(_)
LStripHash(s) == IF s # <<>> /\ Head(s) = "#" THEN LStripHash(Tail(s)) ELSE s

\* hex_to_rgb returning the bytes in the order blue, green, red
hex_to_bgr(hex_color) ==
    LET h == LStripHash(hex_color)
        byte(i) == 16 * HexDigit(h[i + 1]) + HexDigit(h[i + 2])
    IN  <<byte(4), byte(2), byte(0)>>

\* generate_icon.hex_to_rgb; the string is given as its sequence of characters
hex_to_rgb(hex_color) ==
    LET h == LStripHash(hex_color)
        byte(i) == 16 * HexDigit(h[i + 1]) + HexDigit(h[i + 2])
    IN  <<byte(0), byte(2), byte(4)>>

\* generate_icon.py
GRID_COLORS ==
    << hex_to_rgb(<<"#", "0", "E", "4", "4", "2", "9">>),
       hex_to_rgb(<<"#", "0", "0", "6", "D", "3", "2">>),
       hex_to_rgb(<<"#", "2", "6", "A", "6", "4", "1">>),
       hex_to_rgb(<<"#", "3", "9", "D", "3", "5", "3">>) >>

\* the RGB constants of the marketing scripts
BACKGROUND == <<13, 17, 23>>
CARD_BG == <<22, 27, 34>>
GREEN_DARK == <<14, 68, 41>>
GREEN_MED == <<0, 109, 50>>
GREEN_LIGHT == <<38, 166, 65>>
GREEN_BRIGHT == <<57, 211, 83>>

\* levels of draw_grid_icon (both logo scripts) and of create_feature_graphic
IconLevels == <<GREEN_DARK, GREEN_MED, GREEN_LIGHT, GREEN_BRIGHT>>
\* levels of draw_mini_grid
MiniLevels == <<CARD_BG, GREEN_DARK, GREEN_MED, GREEN_LIGHT, GREEN_BRIGHT>>
\* levels of draw_contribution_grid
ContribLevels == <<GREEN_DARK, GREEN_MED, GREEN_LIGHT, GREEN_BRIGHT>>

\* grid_levels of create_icon
grid_levels == << <<1, 2, 3>>, <<2, 3, 4>>, <<3, 4, 4>> >>
\* pattern of draw_grid_icon (both logo scripts) and of create_feature_graphic
pattern == << <<0, 1, 2>>, <<1, 2, 3>>, <<2, 3, 3>> >>

(***************************************************************************)
(* The process-wide random source.  Every routine can reach it; what it    *)
(* would return during one loop iteration is a record                      *)
(*   u1   : the first random.random() (a float in [0, 1))                  *)
(*   pick : the bits random.choice draws its index from                    *)
(*   u2   : the second random.random()                                     *)
(* The floats of [0, 1) are sampled at 0 and 0.99.                         *)
(***************************************************************************)
USamples == {Rat(0, 1), Rat(99, 100)}

Entropy == [u1 : USamples, pick : 0..3, u2 : USamples]

\* random.choice(seq)
RandomChoice(seq, rnd) == seq[(rnd.pick % Len(seq)) + 1]

\* levels[0:], the whole list
Slice0(levels) == SubSeq(levels, 1, Len(levels))

\* levels[1:]
Slice1(levels) == SubSeq(levels, 2, Len(levels))

\* draw_mini_grid with the integer division weight = col // cols
MiniThresholdFloorWeight(col, cols) ==
    RAdd(Rat(2, 10), RMul(RInt(FloorDiv(col, cols)), Rat(6, 10)))

\* draw_mini_grid: weight = col / cols; threshold 0.2 + (weight * 0.6)
MiniThreshold(col, cols) ==
    RAdd(Rat(2, 10), RMul(RDiv(RInt(col), RInt(cols)), Rat(6, 10)))

\* draw_contribution_grid: weight = (week / weeks) * 0.7; threshold 0.3 + weight
ContribThreshold(week, weeks) ==
    RAdd(Rat(3, 10), RMul(RDiv(RInt(week), RInt(weeks)), Rat(7, 10)))

(***************************************************************************)
(* One loop iteration of each grid routine.  The result is                 *)
(*   [raised |-> TRUE]  when the palette lookup raises IndexError, or      *)
(*   [raised |-> FALSE, draw |-> the draw call issued].                    *)
(* Arguments x, y, cell_size, gap are rationals.                           *)
(***************************************************************************)
NoDraw == [row |-> -1, col |-> -1, box |-> <<>>, radius |-> <<0, 1>>,
           fill |-> <<>>, shape |-> "none", branch |-> "none"]

Raised == [raised |-> TRUE, draw |-> NoDraw]

\* GridBox with the parentheses of (cell_size + gap) dropped
GridBoxNoParens(x, y, cell_size, gap, row, col) ==
    LET cx == RAdd(RAdd(x, RMul(RInt(col), cell_size)), gap)
        cy == RAdd(RAdd(y, RMul(RInt(row), cell_size)), gap)
    IN  <<cx, cy, RAdd(cx, cell_size), RAdd(cy, cell_size)>>

\* [cx, cy, cx + cell_size, cy + cell_size] with
\* cx = x + col * (cell_size + gap), cy = y + row * (cell_size + gap)
GridBox(x, y, cell_size, gap, row, col) ==
    LET cx == RAdd(x, RMul(RInt(col), RAdd(cell_size, gap)))
        cy == RAdd(y, RMul(RInt(row), RAdd(cell_size, gap)))
    IN  <<cx, cy, RAdd(cx, cell_size), RAdd(cy, cell_size)>>

\* IconRadius with a quarter of the side
IconRadiusQuarter(cell_size) == RMul(cell_size, Rat(25, 100))

\* radius=cell_size * 0.2
IconRadius(cell_size) == RMul(cell_size, Rat(2, 10))

\* draw_grid_icon taking its colour from the random source
DrawGridIconCellRandom(x, y, cell_size, gap, pat, row, col, rnd) ==
    [raised |-> FALSE,
     draw |-> [row |-> row, col |-> col,
               box |-> GridBox(x, y, cell_size, gap, row, col),
               radius |-> IconRadius(cell_size),
               fill |-> RandomChoice(IconLevels, rnd),
               shape |-> "rounded_rectangle", branch |-> "fixed"]]

\* generate_logos.draw_grid_icon, body of the loop
DrawGridIconCell(x, y, cell_size, gap, pat, row, col, rnd) ==
    LET look == PyIndex(IconLevels, pat[row + 1][col + 1])
    IN  IF look.raised THEN Raised
        ELSE [raised |-> FALSE,
              draw |-> [row |-> row, col |-> col,
                        box |-> GridBox(x, y, cell_size, gap, row, col),
                        radius |-> IconRadius(cell_size),
                        fill |-> look.value,
                        shape |-> "rounded_rectangle", branch |-> "fixed"]]

\* generate_lifeblock_logos.draw_grid_icon, body of the loop
LbDrawGridIconCell(x, y, cell_size, gap, pat, row, col, rnd) ==
    LET look == PyIndex(IconLevels, pat[row + 1][col + 1])
        cx == RAdd(x, RMul(RInt(col), RAdd(cell_size, gap)))
        cy == RAdd(y, RMul(RInt(row), RAdd(cell_size, gap)))
    IN  IF look.raised THEN Raised
        ELSE [raised |-> FALSE,
              draw |-> [row |-> row, col |-> col,
                        box |-> <<cx, cy, RAdd(cx, cell_size), RAdd(cy, cell_size)>>,
                        radius |-> RMul(cell_size, Rat(2, 10)),
                        fill |-> look.value,
                        shape |-> "rounded_rectangle", branch |-> "fixed"]]

\* generate_banners.create_feature_graphic, body of the 3x3 icon loop
FeatureIconCell(icon_x, icon_y, icon_size, icon_gap, pat, row, col, rnd) ==
    LET look == PyIndex(IconLevels, pat[row + 1][col + 1])
        x == RAdd(icon_x, RMul(RInt(col), RAdd(icon_size, icon_gap)))
        y == RAdd(icon_y, RMul(RInt(row), RAdd(icon_size, icon_gap)))
    IN  IF look.raised THEN Raised
        ELSE [raised |-> FALSE,
              draw |-> [row |-> row, col |-> col,
                        box |-> <<x, y, RAdd(x, icon_size), RAdd(y, icon_size)>>,
                        radius |-> RInt(10),
                        fill |-> look.value,
                        shape |-> "rounded_rectangle", branch |-> "fixed"]]

\* generate_banners.draw_mini_grid, body of the loop
DrawMiniGridCell(x, y, cell_size, gap, cols, row, col, rnd) ==
    LET bright == RLess(rnd.u1, MiniThreshold(col, cols))
        color == IF bright THEN RandomChoice(Slice1(MiniLevels), rnd)
                 ELSE MiniLevels[1]
        cx == RAdd(x, RMul(RInt(col), RAdd(cell_size, gap)))
        cy == RAdd(y, RMul(RInt(row), RAdd(cell_size, gap)))
    IN  [raised |-> FALSE,
         draw |-> [row |-> row, col |-> col,
                   box |-> <<cx, cy, RAdd(cx, cell_size), RAdd(cy, cell_size)>>,
                   radius |-> RInt(4),
                   fill |-> color,
                   shape |-> "rounded_rectangle",
                   branch |-> IF bright THEN "bright" ELSE "dark"]]

\* generate_screenshots.draw_contribution_grid, body of the loop
\* (the week is the column of the cell, the day its row)
DrawContributionGridCell(x, y, cell_size, gap, weeks, week, day, rnd) ==
    LET bright == RLess(rnd.u1, ContribThreshold(week, weeks))
        color == IF bright THEN RandomChoice(Slice1(ContribLevels), rnd)
                 ELSE IF RLess(Rat(5, 10), rnd.u2) THEN ContribLevels[1] ELSE CARD_BG
        cx == RAdd(x, RMul(RInt(week), RAdd(cell_size, gap)))
        cy == RAdd(y, RMul(RInt(day), RAdd(cell_size, gap)))
    IN  [raised |-> FALSE,
         draw |-> [row |-> day, col |-> week,
                   box |-> <<cx, cy, RAdd(cx, cell_size), RAdd(cy, cell_size)>>,
                   radius |-> RInt(6),
                   fill |-> color,
                   shape |-> "rounded_rectangle",
                   branch |-> IF bright THEN "bright" ELSE "dark"]]

\* create_icon taking half the gap off the cell
IconConfigHalfGap(size) ==
    LET padding == RMul(RInt(size), Rat(15, 100))
        grid_size == RSub(RInt(size), RMul(padding, RInt(2)))
        cell_size == RDiv(grid_size, RInt(3))
        gap == RMul(cell_size, Rat(12, 100))
        actual_cell == RSub(cell_size, RDiv(gap, RInt(2)))
        corner_radius == RMul(actual_cell, Rat(2, 10))
    IN  [padding |-> padding, grid_size |-> grid_size, cell_size |-> cell_size,
         gap |-> gap, actual_cell |-> actual_cell, corner_radius |-> corner_radius]

\* generate_icon.create_icon: the grid configuration computed from size
IconConfig(size) ==
    LET padding == RMul(RInt(size), Rat(15, 100))
        grid_size == RSub(RInt(size), RMul(padding, RInt(2)))
        cell_size == RDiv(grid_size, RInt(3))
        gap == RMul(cell_size, Rat(12, 100))
        actual_cell == RSub(cell_size, gap)
        corner_radius == RMul(actual_cell, Rat(2, 10))
    IN  [padding |-> padding, grid_size |-> grid_size, cell_size |-> cell_size,
         gap |-> gap, actual_cell |-> actual_cell, corner_radius |-> corner_radius]

\* create_icon indexing the palette with the level itself
CreateIconCellNoOffset(size, levels, row, col, rnd) ==
    LET c == IconConfig(size)
        level == levels[row + 1][col + 1]
        look == PyIndex(GRID_COLORS, level)
        x == RAdd(RAdd(c.padding, RMul(RInt(col), c.cell_size)), RDiv(c.gap, RInt(2)))
        y == RAdd(RAdd(c.padding, RMul(RInt(row), c.cell_size)), RDiv(c.gap, RInt(2)))
    IN  IF look.raised THEN Raised
        ELSE [raised |-> FALSE,
              draw |-> [row |-> row, col |-> col,
                        box |-> <<x, y, RAdd(x, c.actual_cell), RAdd(y, c.actual_cell)>>,
                        radius |-> c.corner_radius,
                        fill |-> look.value,
                        shape |-> "rounded_rectangle", branch |-> "fixed"]]

\* create_icon placing the cells without the half gap
CreateIconCellNoHalfGap(size, levels, row, col, rnd) ==
    LET c == IconConfig(size)
        level == levels[row + 1][col + 1]
        look == PyIndex(GRID_COLORS, level - 1)
        x == RAdd(c.padding, RMul(RInt(col), c.cell_size))
        y == RAdd(c.padding, RMul(RInt(row), c.cell_size))
    IN  IF look.raised THEN Raised
        ELSE [raised |-> FALSE,
              draw |-> [row |-> row, col |-> col,
                        box |-> <<x, y, RAdd(x, c.actual_cell), RAdd(y, c.actual_cell)>>,
                        radius |-> c.corner_radius,
                        fill |-> look.value,
                        shape |-> "rounded_rectangle", branch |-> "fixed"]]

\* generate_icon.create_icon, body of the loop
CreateIconCell(size, levels, row, col, rnd) ==
    LET c == IconConfig(size)
        level == levels[row + 1][col + 1]
        look == PyIndex(GRID_COLORS, level - 1)
        x == RAdd(RAdd(c.padding, RMul(RInt(col), c.cell_size)), RDiv(c.gap, RInt(2)))
        y == RAdd(RAdd(c.padding, RMul(RInt(row), c.cell_size)), RDiv(c.gap, RInt(2)))
    IN  IF look.raised THEN Raised
        ELSE [raised |-> FALSE,
              draw |-> [row |-> row, col |-> col,
                        box |-> <<x, y, RAdd(x, c.actual_cell), RAdd(y, c.actual_cell)>>,
                        radius |-> c.corner_radius,
                        fill |-> look.value,
                        shape |-> "rounded_rectangle", branch |-> "fixed"]]

\* generate_logos.create_favicon: positions (col, row) and colors
FaviconPositions == << <<0, 0>>, <<1, 0>>, <<0, 1>>, <<1, 1>> >>
FaviconColors == <<GREEN_MED, GREEN_LIGHT, GREEN_LIGHT, GREEN_BRIGHT>>

\* generate_logos.create_favicon, body of the loop (i-th position)
CreateFaviconCell(size, i, rnd) ==
    LET cell == FloorDiv(size, 3)
        gap == 1
        col == FaviconPositions[i + 1][1]
        row == FaviconPositions[i + 1][2]
        x == 2 + col * (cell + gap)
        y == 2 + row * (cell + gap)
    IN  [raised |-> FALSE,
         draw |-> [row |-> row, col |-> col,
                   box |-> <<RInt(x), RInt(y), RInt(x + cell), RInt(y + cell)>>,
                   radius |-> RInt(0),
                   fill |-> FaviconColors[i + 1],
                   shape |-> "rectangle", branch |-> "fixed"]]

(***************************************************************************)
(* Grid calls.  A call names the routine, the place it is called from, the *)
(* arguments and the size W x H of the canvas the routine draws on.        *)
(***************************************************************************)
GridCall(fn, site, x, y, cell_size, gap, rows, cols, W, H) ==
    [fn |-> fn, site |-> site, x |-> RInt(x), y |-> RInt(y),
     cell_size |-> RInt(cell_size), gap |-> RInt(gap),
     rows |-> rows, cols |-> cols, size |-> 0, W |-> W, H |-> H]

\* a routine that takes the canvas size only (create_icon, create_favicon)
SizedCall(fn, site, size, rows, cols) ==
    [fn |-> fn, site |-> site, x |-> RInt(0), y |-> RInt(0),
     cell_size |-> RInt(0), gap |-> RInt(0),
     rows |-> rows, cols |-> cols, size |-> size, W |-> size, H |-> size]

\* start_x computed from the cells alone, without the two gaps
StackedStartXNoGaps(width, icon_size, icon_gap) ==
    LET total_icon == 3 * icon_size
    IN  FloorDiv(width - total_icon, 2)

\* create_logo_stacked_*, create_stacked: start_x = (width - total_icon) // 2
StackedStartX(width, icon_size, icon_gap) ==
    LET total_icon == 3 * icon_size + 2 * icon_gap
    IN  FloorDiv(width - total_icon, 2)

\* create_icon_only with a gap of 10% of the cell
IconOnlyCallSmallGap(size) ==
    LET padding == RMul(RInt(size), Rat(1, 10))
        available == RSub(RInt(size), RMul(padding, RInt(2)))
        cell_size == RDiv(available, Rat(35, 10))
        gap == RMul(cell_size, Rat(1, 10))
    IN  GridCall("draw_grid_icon", "create_icon_only", PyInt(padding), PyInt(padding),
                 PyInt(cell_size), PyInt(gap), 3, 3, size, size)

\* generate_logos.create_icon_only: the draw_grid_icon call made for one size
IconOnlyCall(size) ==
    LET padding == RMul(RInt(size), Rat(1, 10))
        available == RSub(RInt(size), RMul(padding, RInt(2)))
        cell_size == RDiv(available, Rat(35, 10))
        gap == RMul(cell_size, Rat(2, 10))
    IN  GridCall("draw_grid_icon", "create_icon_only", PyInt(padding), PyInt(padding),
                 PyInt(cell_size), PyInt(gap), 3, 3, size, size)

IconOnlySizes == {512, 256, 128, 64, 32}
FaviconSizes == {32, 16}

LogosCalls ==
    { GridCall("draw_grid_icon", "create_logo_horizontal_dark", 40, 35, 40, 8, 3, 3, 800, 200),
      GridCall("draw_grid_icon", "create_logo_horizontal_light", 40, 35, 40, 8, 3, 3, 800, 200),
      GridCall("draw_grid_icon", "create_logo_stacked_dark",
               StackedStartX(400, 50, 10), 40, 50, 10, 3, 3, 400, 350),
      GridCall("draw_grid_icon", "create_logo_stacked_light",
               StackedStartX(400, 50, 10), 40, 50, 10, 3, 3, 400, 350),
      GridCall("draw_grid_icon", "create_logo_with_tagline", 40, 50, 45, 10, 3, 3, 800, 280) }
    \cup {IconOnlyCall(size) : size \in IconOnlySizes}
    \cup {SizedCall("create_favicon", "create_favicon", size, 2, 2) : size \in FaviconSizes}

LifeblockCalls ==
    { GridCall("lb_draw_grid_icon", "create_logo_horizontal_dark", 40, 35, 40, 8, 3, 3, 800, 200),
      GridCall("lb_draw_grid_icon", "create_logo_horizontal_light", 40, 35, 40, 8, 3, 3, 800, 200),
      GridCall("lb_draw_grid_icon", "create_logo_with_tagline", 40, 50, 45, 10, 3, 3, 900, 280),
      GridCall("lb_draw_grid_icon", "create_stacked",
               StackedStartX(400, 50, 10), 40, 50, 10, 3, 3, 400, 350) }

BannersCalls ==
    { GridCall("draw_mini_grid", "create_twitter_header", 50, 100, 28, 6, 10, 12, 1500, 500),
      GridCall("draw_mini_grid", "create_instagram_square", 140, 300, 45, 10, 7, 15, 1080, 1080),
      GridCall("feature_icon", "create_feature_graphic", 80, 150, 50, 10, 3, 3, 1024, 500),
      GridCall("draw_mini_grid", "create_feature_graphic", 700, 150, 24, 5, 7, 10, 1024, 500),
      GridCall("draw_mini_grid", "create_og_image", 50, 80, 32, 8, 6, 8, 1200, 630),
      GridCall("draw_mini_grid", "create_app_store_preview", 100, 200, 40, 8, 10, 12, 1920, 1080) }

\* generate_screenshots: WIDTH, HEIGHT and the draw_contribution_grid calls
\* (create_screenshot_5: med_x + 50, med_y + 100 and large_x + 50, large_y + 100)
ScreenshotsCalls ==
    { GridCall("draw_contribution_grid", "create_screenshot_1", 200, 1900, 50, 12, 7, 15, 1290, 2796),
      GridCall("draw_contribution_grid", "create_screenshot_3", 80, 500, 42, 8, 7, 26, 1290, 2796),
      GridCall("draw_contribution_grid", "create_screenshot_5_medium",
               500 + 50, 500 + 100, 30, 5, 7, 8, 1290, 2796),
      GridCall("draw_contribution_grid", "create_screenshot_5_large",
               100 + 50, 950 + 100, 38, 6, 7, 14, 1290, 2796) }

IconCalls == { SizedCall("create_icon", "main", 1024, 3, 3) }

\* every grid the five scripts draw
ActualCalls == LogosCalls \cup LifeblockCalls \cup BannersCalls \cup ScreenshotsCalls \cup IconCalls

\* the grid routines applied to other arguments (bounded)
GenericArgs ==
    { <<x, y, c, g>> : x \in {0, MaxOrigin}, y \in {0, MaxOrigin},
                       c \in {1, MaxCell, 100}, g \in {0, MaxGap, 12} }

RandomGenericArgs ==
    { <<x, y, c, g>> : x \in {0, MaxOrigin}, y \in {0}, c \in {MaxCell, 100}, g \in {0, 12} }

GenericCalls ==
    { GridCall(fn, "generic", a[1], a[2], a[3], a[4], 3, 3, 0, 0) :
        fn \in {"draw_grid_icon", "lb_draw_grid_icon"}, a \in GenericArgs }
    \cup { GridCall("draw_mini_grid", "generic", a[1], a[2], a[3], a[4], d[1], d[2], 0, 0) :
        a \in RandomGenericArgs, d \in {1, MaxDim} \X {1, MaxDim} }
    \cup { GridCall("draw_contribution_grid", "generic", a[1], a[2], a[3], a[4], 7, w, 0, 0) :
        a \in RandomGenericArgs, w \in {1, MaxDim} }

AllCalls == ActualCalls \cup GenericCalls

Deterministic(c) ==
    c.fn \in {"draw_grid_icon", "lb_draw_grid_icon", "feature_icon", "create_icon", "create_favicon"}

\* the matrix literal of the routine
LiteralMatrix(c) ==
    IF c.fn = "create_icon" THEN grid_levels
    ELSE IF c.fn \in {"draw_grid_icon", "lb_draw_grid_icon", "feature_icon"} THEN pattern
    ELSE << >>

\* both loops running over range(cols)
NCellsSquare(c) == c.cols * c.cols

\* iterations of the two nested loops
NCells(c) == c.rows * c.cols

(***************************************************************************)
(* The grid state machine: two executions of the same call, cell by cell.  *)
(***************************************************************************)
Runs == {1, 2}

\* both executions have run one loop iteration with results a and b
Emit(a, b) ==
    /\ k' = k + 1
    /\ last' = [r \in Runs |->
                  IF r = 1 THEN (IF a.raised THEN last[1] ELSE a.draw)
                  ELSE (IF b.raised THEN last[2] ELSE b.draw)]
    /\ ndraws' = [r \in Runs |->
                  IF r = 1 THEN (IF a.raised THEN ndraws[1] ELSE ndraws[1] + 1)
                  ELSE (IF b.raised THEN ndraws[2] ELSE ndraws[2] + 1)]
    /\ same' = (same /\ a = b)
    /\ boxes' = IF a.raised THEN boxes
                ELSE Append(boxes, [row |-> a.draw.row, col |-> a.draw.col, box |-> a.draw.box])
    /\ gstatus' = IF a.raised \/ b.raised THEN "failed" ELSE "running"
    /\ UNCHANGED <<call, matrix>>
    /\ UNCHANGED svars

Looping(fn) == gstatus = "running" /\ call.fn = fn /\ k < NCells(call)

\* What iteration i of the loops of call c can emit, over every state of the
\* random source.
\*   draw_grid_icon, feature icon, create_icon : for row in range(3): for col in range(3)
\*   create_favicon         : for i, (col, row) in enumerate(positions)
\*   draw_mini_grid         : for row in range(rows): for col in range(cols)
\*   draw_contribution_grid : for week in range(weeks): for day in range(7)
Results(c, m, i) ==
    CASE c.fn = "draw_grid_icon" ->
            {DrawGridIconCell(c.x, c.y, c.cell_size, c.gap, m, i \div 3, i % 3, e) : e \in Entropy}
      [] c.fn = "lb_draw_grid_icon" ->
            {LbDrawGridIconCell(c.x, c.y, c.cell_size, c.gap, m, i \div 3, i % 3, e) : e \in Entropy}
      [] c.fn = "feature_icon" ->
            {FeatureIconCell(c.x, c.y, c.cell_size, c.gap, m, i \div 3, i % 3, e) : e \in Entropy}
      [] c.fn = "create_icon" ->
            {CreateIconCell(c.size, m, i \div 3, i % 3, e) : e \in Entropy}
      [] c.fn = "create_favicon" ->
            {CreateFaviconCell(c.size, i, e) : e \in Entropy}
      [] c.fn = "draw_mini_grid" ->
            {DrawMiniGridCell(c.x, c.y, c.cell_size, c.gap, c.cols,
                              i \div c.cols, i % c.cols, e) : e \in Entropy}
      [] c.fn = "draw_contribution_grid" ->
            {DrawContributionGridCell(c.x, c.y, c.cell_size, c.gap, c.cols,
                                      i \div 7, i % 7, e) : e \in Entropy}

\* Each action runs one loop iteration in both executions; each execution
\* meets its own state of the random source.
Iterate == \E a \in Results(call, matrix, k), b \in Results(call, matrix, k) : Emit(a, b)

DrawGridIcon == Looping("draw_grid_icon") /\ Iterate

LbDrawGridIcon == Looping("lb_draw_grid_icon") /\ Iterate

FeatureIcon == Looping("feature_icon") /\ Iterate

CreateIcon == Looping("create_icon") /\ Iterate

CreateFavicon == Looping("create_favicon") /\ Iterate

DrawMiniGrid == Looping("draw_mini_grid") /\ Iterate

DrawContributionGrid == Looping("draw_contribution_grid") /\ Iterate

\* the loops are over: the routine returns
GridReturn ==
    /\ gstatus = "running"
    /\ k = NCells(call)
    /\ gstatus' = "done"
    /\ UNCHANGED <<call, matrix, k, last, ndraws, same, boxes>>
    /\ UNCHANGED svars

\* no call of get_font has returned yet
NoFont == [raised |-> FALSE, path |-> "none", size |-> 0]

ScriptIdle ==
    /\ script = "none" /\ pc = 0 /\ env = << >> /\ images = << >>
    /\ disk = << >> /\ stdout = << >> /\ fonts = {} /\ lastFont = NoFont
    /\ status = "idle"

GridStart(c, m) ==
    /\ call = c
    /\ matrix = m
    /\ k = 0
    /\ last = [r \in Runs |-> NoDraw]
    /\ ndraws = [r \in Runs |-> 0]
    /\ same = TRUE
    /\ boxes = << >>
    /\ gstatus = "running"

InitGrid ==
    /\ \E c \in AllCalls : GridStart(c, LiteralMatrix(c))
    /\ ScriptIdle

NextGrid ==
    \/ DrawGridIcon
    \/ LbDrawGridIcon
    \/ FeatureIcon
    \/ CreateIcon
    \/ CreateFavicon
    \/ DrawMiniGrid
    \/ DrawContributionGrid
    \/ GridReturn

SpecGrid == InitGrid /\ [][NextGrid]_vars

(***************************************************************************)
(* The same routines run on a level matrix that differs from the literal   *)
(* in one entry: what the palette lookup does with an entry it has no      *)
(* colour for.                                                             *)
(***************************************************************************)
LevelCalls ==
    {c \in ActualCalls : c.fn \in {"draw_grid_icon", "lb_draw_grid_icon", "feature_icon", "create_icon"}}

OneEntryChanged(m) ==
    {[m EXCEPT ![r][c] = v] : r \in 1..3, c \in 1..3, v \in (-MaxLevel)..MaxLevel}

InitLevels ==
    /\ \E c \in LevelCalls : \E m \in OneEntryChanged(LiteralMatrix(c)) : GridStart(c, m)
    /\ ScriptIdle

NextLevels ==
    \/ DrawGridIcon
    \/ LbDrawGridIcon
    \/ FeatureIcon
    \/ CreateIcon
    \/ GridReturn

SpecLevels == InitLevels /\ [][NextLevels]_vars

(***************************************************************************)
(* create_icon(size) for other sizes than the 1024 main() asks for: small  *)
(* ones and the sizes of the list in main().                               *)
(***************************************************************************)
IconSizeRange == (1..MaxIconSize) \cup {29, 180, 1024}

InitIcon ==
    /\ \E size \in IconSizeRange :
          GridStart(SizedCall("create_icon", "create_icon", size, 3, 3), grid_levels)
    /\ ScriptIdle

NextIcon ==
    \/ CreateIcon
    \/ GridReturn

SpecIcon == InitIcon /\ [][NextIcon]_vars

(***************************************************************************)
(* The stacked logos (create_logo_stacked_dark, create_logo_stacked_light, *)
(* create_stacked) on canvases of other widths and with other icon sizes.  *)
(***************************************************************************)
StackedWidths == (0..MaxWidth) \cup {399, 400}

StackedIcons == {<<50, 10>>, <<1, 0>>, <<MaxCell, MaxGap>>}

StackedCall(fn, width, icon_size, icon_gap) ==
    GridCall(fn, "stacked", StackedStartX(width, icon_size, icon_gap), 40,
             icon_size, icon_gap, 3, 3, width, 350)

InitStacked ==
    /\ \E fn \in {"draw_grid_icon", "lb_draw_grid_icon"}, w \in StackedWidths, i \in StackedIcons :
          GridStart(StackedCall(fn, w, i[1], i[2]), pattern)
    /\ ScriptIdle

NextStacked ==
    \/ DrawGridIcon
    \/ LbDrawGridIcon
    \/ GridReturn

SpecStacked == InitStacked /\ [][NextStacked]_vars

(***************************************************************************)
(*                       Properties of the grid routines                   *)
(***************************************************************************)
GridRoutines ==
    {"draw_grid_icon", "lb_draw_grid_icon", "feature_icon", "draw_mini_grid",
     "draw_contribution_grid"}

\* the rectangle the layout formula gives, in integer arithmetic
\* (the arguments of every call are integers)
FormulaBox(c, row, col) ==
    LET step == c.cell_size[1] + c.gap[1]
        x0 == c.x[1] + col * step
        y0 == c.y[1] + row * step
    IN  <<RInt(x0), RInt(y0), RInt(x0 + c.cell_size[1]), RInt(y0 + c.cell_size[1])>>

InBounds(c, row, col) == row \in 0..(c.rows - 1) /\ col \in 0..(c.cols - 1)

\* C1: every rectangle a grid routine draws for (row, col) has top-left
\* (x + col*(c+g), y + row*(c+g)) and bottom-right (top-left + c); only
\* indices inside the grid are drawn, and when the routine returns every
\* index inside the grid has been drawn once.
C1_CellGeometry ==
    call.fn \in GridRoutines =>
        /\ \A r \in Runs :
              /\ ndraws[r] <= NCells(call)
              /\ last[r] # NoDraw =>
                    /\ InBounds(call, last[r].row, last[r].col)
                    /\ last[r].box = FormulaBox(call, last[r].row, last[r].col)
        /\ boxes # << >> =>
              LET b == boxes[Len(boxes)]
              IN  InBounds(call, b.row, b.col) /\ b.box = FormulaBox(call, b.row, b.col)
        /\ gstatus = "done" =>
              /\ Len(boxes) = NCells(call)
              /\ {<<boxes[i].row, boxes[i].col>> : i \in 1..Len(boxes)}
                    = (0..(call.rows - 1)) \X (0..(call.cols - 1))

C1_Witness ==
    /\ gstatus = "done"
    /\ call.fn = "draw_mini_grid" /\ call.site = "create_twitter_header"
    /\ last[1].row = 9 /\ last[1].col = 11
    /\ last[1].box = <<RInt(424), RInt(406), RInt(452), RInt(434)>>

\* closed coordinate ranges of two rectangles are disjoint in some axis
DisjointBoxes(p, q) ==
    \/ RLess(p[3], q[1]) \/ RLess(q[3], p[1])
    \/ RLess(p[4], q[2]) \/ RLess(q[4], p[2])

Width(b) == RSub(b[3], b[1])

RAbsDiff(a, b) == IF RLess(a, b) THEN RSub(b, a) ELSE RSub(a, b)

\* C2: in every grid call the scripts make the gap is > 0, adjacent cells
\* are one step = side + gap > side apart, and two different cells of one
\* grid never overlap.
C2_NoOverlap ==
    call \in ActualCalls =>
        /\ call.fn \in GridRoutines => RLess(RInt(0), call.gap)
        /\ \A i \in 1..(Len(boxes) - 1) :
              LET p == boxes[i]
                  q == boxes[Len(boxes)]
              IN  /\ DisjointBoxes(p.box, q.box)
                  /\ (p.row = q.row /\ Abs(p.col - q.col) = 1) =>
                        /\ RLess(Width(p.box), RAbsDiff(p.box[1], q.box[1]))
                        /\ call.fn \in GridRoutines =>
                              RAbsDiff(p.box[1], q.box[1]) = RAdd(call.cell_size, call.gap)
                  /\ (p.col = q.col /\ Abs(p.row - q.row) = 1) =>
                        /\ RLess(Width(p.box), RAbsDiff(p.box[2], q.box[2]))
                        /\ call.fn \in GridRoutines =>
                              RAbsDiff(p.box[2], q.box[2]) = RAdd(call.cell_size, call.gap)

C2_Witness ==
    /\ gstatus = "done"
    /\ call.site = "create_icon_only" /\ call.W = 32
    /\ call.cell_size = RInt(7) /\ call.gap = RInt(1)
    /\ Len(boxes) = 9

FiveRadiusIsSide(d) ==
    /\ RMul(RInt(5), d.radius) = RSub(d.box[3], d.box[1])
    /\ RMul(RInt(5), d.radius) = RSub(d.box[4], d.box[2])

\* C3 as stated: every cell of every deterministic grid is drawn with a
\* corner radius of exactly 0.2 times its side.
C3_Original ==
    Deterministic(call) =>
        \A r \in Runs : last[r] # NoDraw => FiveRadiusIsSide(last[r])

\* C3 amended: every cell of every deterministic grid other than the 2x2
\* grid of create_favicon is a rounded rectangle whose corner radius is
\* exactly 0.2 times its side; create_favicon draws plain rectangles, which
\* have no corner radius.
C3_RadiusFifth ==
    Deterministic(call) =>
        \A r \in Runs : last[r] # NoDraw =>
            IF call.fn = "create_favicon"
            THEN last[r].shape = "rectangle" /\ last[r].radius = RInt(0)
            ELSE last[r].shape = "rounded_rectangle" /\ FiveRadiusIsSide(last[r])

C3_Witness ==
    /\ gstatus = "done"
    /\ call.site = "create_icon_only" /\ call.W = 512
    /\ last[1].radius = Rat(117, 5)
    /\ RSub(last[1].box[3], last[1].box[1]) = RInt(117)

Brightness(rgb) == rgb[1] + rgb[2] + rgb[3]

\* the spec's scenario: cellSize=100, gap=12, origin=(0,0)
ScenarioCall == GridCall("draw_grid_icon", "generic", 0, 0, 100, 12, 3, 3, 0, 0)

\* C4: create_icon fills the cell of level L with palette entry L-1 (the
\* L-th entry); the cell (row=1, col=2) has level 4 and gets the fourth and
\* brightest entry; the layout formula with cellSize=100, gap=12 and origin
\* (0,0) puts the cell (row=1, col=2) at (224, 112).
C4_Scenario ==
    /\ call.fn = "create_icon" =>
          /\ matrix = << <<1, 2, 3>>, <<2, 3, 4>>, <<3, 4, 4>> >>
          /\ gstatus # "failed"
          /\ \A r \in Runs : last[r] # NoDraw =>
                LET L == matrix[last[r].row + 1][last[r].col + 1]
                IN  /\ last[r].fill = GRID_COLORS[L]
                    /\ (last[r].row = 1 /\ last[r].col = 2) =>
                          /\ L = 4
                          /\ last[r].fill = <<57, 211, 83>>
                          /\ \A i \in 1..Len(GRID_COLORS) :
                                i # 4 => Brightness(GRID_COLORS[i]) < Brightness(last[r].fill)
    /\ call = ScenarioCall =>
          \A r \in Runs : (last[r].row = 1 /\ last[r].col = 2) =>
              /\ last[r].box[1] = RInt(224)
              /\ last[r].box[2] = RInt(112)

C4_Witness ==
    /\ call = ScenarioCall
    /\ last[1].row = 1 /\ last[1].col = 2
    /\ last[1].box = <<RInt(224), RInt(112), RInt(324), RInt(212)>>
    /\ last[1].fill = GREEN_BRIGHT

\* the next iteration can draw different colours in the two executions
CanDiffer ==
    \E a \in Results(call, matrix, k), b \in Results(call, matrix, k) :
        ~a.raised /\ ~b.raised /\ a.draw.fill # b.draw.fill

\* C5: two executions of a deterministic grid with the same arguments emit
\* the same draw calls, whatever the random source holds; for draw_mini_grid
\* and draw_contribution_grid, at every cell the two executions can draw
\* different colours.
C5_Deterministic ==
    /\ Deterministic(call) =>
          /\ same
          /\ last[1] = last[2]
          /\ ndraws[1] = ndraws[2]
    /\ (~Deterministic(call) /\ gstatus = "running" /\ k < NCells(call)) => CanDiffer

C5_Witness ==
    /\ gstatus = "done"
    /\ call.fn = "draw_contribution_grid" /\ call.site = "create_screenshot_1"
    /\ ~same
    /\ last[1].box = last[2].box
    /\ last[1].fill # last[2].fill

(***************************************************************************)
(*                  Properties of the palette lookup                       *)
(***************************************************************************)
\* the 0-based palette index the routine computes for loop iteration i
PaletteIndex(c, m, i) ==
    IF c.fn = "create_icon" THEN m[(i \div 3) + 1][(i % 3) + 1] - 1
    ELSE m[(i \div 3) + 1][(i % 3) + 1]

Palette(c) == IF c.fn = "create_icon" THEN GRID_COLORS ELSE IconLevels

\* C6 as stated: an entry that does not denote one of the 4 palette entries
\* (palette index outside 0..3) makes the lookup fail: no cell is drawn for
\* it and the routine stops there.
C6_Original ==
    \A i \in 0..(k - 1) :
        PaletteIndex(call, matrix, i) \notin 0..3 =>
            /\ gstatus = "failed"
            /\ k = i + 1
            /\ \A r \in Runs : ndraws[r] = i

\* C6 amended: an out-of-range palette index is never clamped or defaulted,
\* but a negative index counts from the end of the palette: an index in
\* -4..-1 (level -3..0 in create_icon, pattern value -4..-1 in
\* draw_grid_icon) selects palette[index + 4] and the cell is drawn; an
\* index outside -4..3 (level outside -3..4, pattern value outside -4..3)
\* makes the lookup fail, no cell is drawn for that entry and the failure
\* stops the routine, and with it the script.
C6_NegativeWraps ==
    /\ \A i \in 0..(k - 1) :
          LET idx == PaletteIndex(call, matrix, i)
          IN  /\ idx \notin (-4)..3 =>
                    /\ gstatus = "failed"
                    /\ k = i + 1
                    /\ \A r \in Runs : ndraws[r] = i
              /\ (idx \in (-4)..(-1) /\ i = k - 1) =>
                    /\ gstatus # "failed"
                    /\ \A r \in Runs :
                          /\ ndraws[r] = k
                          /\ last[r].row = i \div 3 /\ last[r].col = i % 3
                          /\ last[r].fill = Palette(call)[idx + 4 + 1]
              /\ (idx \in 0..3 /\ i = k - 1) =>
                    /\ gstatus # "failed"
                    /\ \A r \in Runs : last[r].fill = Palette(call)[idx + 1]
    /\ gstatus = "failed" =>
          k > 0 /\ PaletteIndex(call, matrix, k - 1) \notin (-4)..3

C6_Witness ==
    /\ gstatus = "failed"
    /\ call.fn = "create_icon"
    /\ matrix[2][3] = 5
    /\ k = 6
    /\ ndraws[1] = 5
    /\ last[1].row = 1 /\ last[1].col = 1

(***************************************************************************)
(*                          The scripts' main()                            *)
(*                                                                         *)
(* A script is the sequence of the steps its main() executes, in program   *)
(* order (the scripts have no branches on input):                          *)
(*   new      var = Image.new(mode, (w, h), colour)                        *)
(*   get_font get_font(size)                                               *)
(*   draw     the draw calls made on var between two other steps           *)
(*   resize   var = src.resize((w, h), LANCZOS)                            *)
(*   save     var.save(dir/file)                                           *)
(*   print    print(text)                                                  *)
(***************************************************************************)
Op(op, var, src, w, h, size, bold, dir, text) ==
    [op |-> op, var |-> var, src |-> src, w |-> w, h |-> h, size |-> size,
     bold |-> bold, dir |-> dir, text |-> text]

OpNew(var, w, h) == Op("new", var, "", w, h, 0, FALSE, "", "")
OpFont(size) == Op("get_font", "", "", 0, 0, size, FALSE, "", "")
OpFontBold(size) == Op("get_font", "", "", 0, 0, size, TRUE, "", "")
OpDraw(var) == Op("draw", var, "", 0, 0, 0, FALSE, "", "")
OpResize(var, src, w, h) == Op("resize", var, src, w, h, 0, FALSE, "", "")
OpSave(var, dir, file) == Op("save", var, "", 0, 0, 0, FALSE, dir, file)
OpPrint(text) == Op("print", "", "", 0, 0, 0, FALSE, "", text)

RECURSIVE Concat(_)
Concat(seqs) == IF seqs = << >> THEN << >> ELSE Head(seqs) \o Concat(Tail(seqs))

\* ---- AppIcon/generate_icon.py ----
IconDir == "/Users/jamesbecker/Desktop/LifeGrid/AppIcon"

\* the list sizes of main()
IconSizes ==
    << <<180, "AppIcon-180.png">>, <<120, "AppIcon-120.png">>, <<167, "AppIcon-167.png">>,
       <<152, "AppIcon-152.png">>, <<76, "AppIcon-76.png">>, <<40, "AppIcon-40.png">>,
       <<60, "AppIcon-60.png">>, <<58, "AppIcon-58.png">>, <<87, "AppIcon-87.png">>,
       <<80, "AppIcon-80.png">>, <<29, "AppIcon-29.png">> >>

\* the loop saves the 1024 icon under every name
IconResizeOpsSavesIcon(entry) ==
    << OpResize("resized", "icon", entry[1], entry[1]),
       OpSave("icon", IconDir, entry[2]),
       OpPrint("Created: " \o entry[2]) >>

\* one iteration of "for size, filename in sizes"
IconResizeOps(entry) ==
    << OpResize("resized", "icon", entry[1], entry[1]),
       OpSave("resized", IconDir, entry[2]),
       OpPrint("Created: " \o entry[2]) >>

IconMain ==
    << OpNew("icon", 1024, 1024), OpDraw("icon"),
       OpSave("icon", IconDir, "AppIcon-1024.png"),
       OpPrint("Created: AppIcon-1024.png") >>
    \o Concat([i \in 1..Len(IconSizes) |-> IconResizeOps(IconSizes[i])])
    \o << OpPrint("\nAll icons generated successfully!"),
          OpPrint("\nTo use in Xcode:"),
          OpPrint("1. Open Assets.xcassets"),
          OpPrint("2. Select AppIcon"),
          OpPrint("3. Drag AppIcon-1024.png to the 1024x1024 slot"),
          OpPrint("   (Xcode will auto-generate other sizes, or use the individual files)") >>

\* ---- Marketing/Logos/generate_logos.py ----
LogosDir == "/Users/jamesbecker/Desktop/LifeGrid/Marketing/Logos"

\* a logo with the grid icon and one line of text
LogoOps(dir, w, h, fontsize, file) ==
    << OpNew("img", w, h), OpDraw("img"), OpFont(fontsize), OpDraw("img"),
       OpSave("img", dir, file), OpPrint("Created: " \o file) >>

\* create_logo_with_tagline
TaglineOps(dir, w, h, file) ==
    << OpNew("img", w, h), OpDraw("img"), OpFont(64), OpFont(28), OpDraw("img"),
       OpSave("img", dir, file), OpPrint("Created: " \o file) >>

\* create_wordmark drawing the light version over the dark image
WordmarkOpsSharedCanvas(dir, dark, light) ==
    << OpNew("img", 500, 120), OpFont(72), OpDraw("img"),
       OpSave("img", dir, dark), OpPrint("Created: " \o dark),
       OpDraw("img"),
       OpSave("img", dir, light), OpPrint("Created: " \o light) >>

\* create_wordmark
WordmarkOps(dir, dark, light) ==
    << OpNew("img", 500, 120), OpFont(72), OpDraw("img"),
       OpSave("img", dir, dark), OpPrint("Created: " \o dark),
       OpNew("img", 500, 120), OpDraw("img"),
       OpSave("img", dir, light), OpPrint("Created: " \o light) >>

\* a file name that leaves the size out
SizedNameNoSize(prefix, size) == prefix \o ".png"

\* f"icon_only_{size}x{size}.png", f"favicon_{size}x{size}.png"
SizedName(prefix, size) == prefix \o ToString(size) \o "x" \o ToString(size) \o ".png"

\* create_icon_only, one iteration of "for size in sizes"
IconOnlyOps(size) ==
    << OpNew("img", size, size), OpDraw("img"),
       OpSave("img", LogosDir, SizedName("icon_only_", size)),
       OpPrint("Created: " \o SizedName("icon_only_", size)) >>

\* create_favicon, one iteration of "for size in sizes"
FaviconOps(size) ==
    << OpNew("img", size, size), OpDraw("img"),
       OpSave("img", LogosDir, SizedName("favicon_", size)),
       OpPrint("Created: " \o SizedName("favicon_", size)) >>

IconOnlySizeList == <<512, 256, 128, 64, 32>>
FaviconSizeList == <<32, 16>>

LogosMain ==
    << OpPrint("Generating Logo Variations...\n") >>
    \o LogoOps(LogosDir, 800, 200, 72, "logo_horizontal_dark.png")
    \o LogoOps(LogosDir, 800, 200, 72, "logo_horizontal_light.png")
    \o LogoOps(LogosDir, 400, 350, 56, "logo_stacked_dark.png")
    \o LogoOps(LogosDir, 400, 350, 56, "logo_stacked_light.png")
    \o Concat([i \in 1..Len(IconOnlySizeList) |-> IconOnlyOps(IconOnlySizeList[i])])
    \o Concat([i \in 1..Len(FaviconSizeList) |-> FaviconOps(FaviconSizeList[i])])
    \o TaglineOps(LogosDir, 800, 280, "logo_with_tagline.png")
    \o WordmarkOps(LogosDir, "wordmark_dark.png", "wordmark_light.png")
    \o << OpPrint("\nAll logos saved to: " \o LogosDir),
          OpPrint("\nLogo usage guide:"),
          OpPrint("- App Store / social: logo_horizontal_dark.png"),
          OpPrint("- Light backgrounds: logo_horizontal_light.png"),
          OpPrint("- Square spaces: logo_stacked_*.png"),
          OpPrint("- Website favicon: favicon_*.png"),
          OpPrint("- Marketing: logo_with_tagline.png"),
          OpPrint("- Minimal: wordmark_*.png") >>

\* ---- Marketing/Logos/generate_lifeblock_logos.py ----
LifeblockDir == "/Users/jamesbecker/Desktop/LifeBlock/Marketing/Logos"

\* main() with the stacked logo made before the tagline logo
LifeblockMainStackedFirst ==
    << OpPrint("Generating LifeBlock Logos...\n") >>
    \o LogoOps(LifeblockDir, 800, 200, 72, "lifeblock_logo_horizontal_dark.png")
    \o LogoOps(LifeblockDir, 800, 200, 72, "lifeblock_logo_horizontal_light.png")
    \o LogoOps(LifeblockDir, 400, 350, 56, "lifeblock_logo_stacked_dark.png")
    \o TaglineOps(LifeblockDir, 900, 280, "lifeblock_logo_with_tagline.png")
    \o WordmarkOps(LifeblockDir, "lifeblock_wordmark_dark.png", "lifeblock_wordmark_light.png")
    \o << OpPrint("\nAll logos saved to: " \o LifeblockDir) >>

LifeblockMain ==
    << OpPrint("Generating LifeBlock Logos...\n") >>
    \o LogoOps(LifeblockDir, 800, 200, 72, "lifeblock_logo_horizontal_dark.png")
    \o LogoOps(LifeblockDir, 800, 200, 72, "lifeblock_logo_horizontal_light.png")
    \o TaglineOps(LifeblockDir, 900, 280, "lifeblock_logo_with_tagline.png")
    \o WordmarkOps(LifeblockDir, "lifeblock_wordmark_dark.png", "lifeblock_wordmark_light.png")
    \o LogoOps(LifeblockDir, 400, 350, 56, "lifeblock_logo_stacked_dark.png")
    \o << OpPrint("\nAll logos saved to: " \o LifeblockDir) >>

\* ---- Marketing/generate_banners.py ----
BannersDir == "/Users/jamesbecker/Desktop/LifeBlocks/Marketing/Banners"

\* the two statements in the other order: the line is printed before the save
ReportAndSave(dir, file) == << OpPrint("Created: " \o file), OpSave("img", dir, file) >>

\* the end of every create_* function: img.save(...); print("Created: ...")
SaveAndReport(dir, file) == << OpSave("img", dir, file), OpPrint("Created: " \o file) >>

TwitterHeaderOps ==
    << OpNew("img", 1500, 500), OpFont(72), OpFont(36), OpDraw("img"),
       OpFont(28), OpDraw("img") >>
    \o SaveAndReport(BannersDir, "twitter_header_1500x500.png")

InstagramSquareOps ==
    << OpNew("img", 1080, 1080), OpFont(80), OpFont(40), OpDraw("img"),
       OpFont(32), OpDraw("img"), OpFont(32), OpDraw("img"), OpFont(32), OpDraw("img"),
       OpDraw("img") >>
    \o SaveAndReport(BannersDir, "instagram_square_1080x1080.png")

FeatureGraphicOps ==
    << OpNew("img", 1024, 500), OpFont(64), OpFont(32), OpDraw("img"),
       OpFont(24), OpDraw("img") >>
    \o SaveAndReport(BannersDir, "feature_graphic_1024x500.png")

OgImageOps ==
    << OpNew("img", 1200, 630), OpFont(72), OpFont(36), OpDraw("img"),
       OpFont(28), OpDraw("img"), OpFont(28), OpDraw("img"), OpFont(28), OpDraw("img") >>
    \o SaveAndReport(BannersDir, "og_image_1200x630.png")

AppStorePreviewOps ==
    << OpNew("img", 1920, 1080), OpFont(96), OpFont(48), OpFont(32), OpDraw("img") >>
    \o SaveAndReport(BannersDir, "app_store_preview_1920x1080.png")

BannersMain ==
    << OpPrint("Generating Social Media Banners...\n") >>
    \o TwitterHeaderOps \o InstagramSquareOps \o FeatureGraphicOps
    \o OgImageOps \o AppStorePreviewOps
    \o << OpPrint("\nAll banners saved to: " \o BannersDir) >>

\* ---- Marketing/Screenshots/generate_screenshots.py ----
ScreenshotsDir == "/Users/jamesbecker/Desktop/LifeBlocks/Marketing/Screenshots"
WIDTH == 1290
HEIGHT == 2796

\* img = Image.new('RGB', (WIDTH, HEIGHT), BACKGROUND) and the fonts every
\* create_screenshot_* starts with
ScreenshotStart(withSmall) ==
    << OpNew("img", WIDTH, HEIGHT), OpFontBold(72), OpFont(48) >>
    \o (IF withSmall THEN << OpFont(36) >> ELSE << >>)

Screenshot1Ops ==
    ScreenshotStart(TRUE) \o << OpDraw("img") >>
    \o SaveAndReport(ScreenshotsDir, "01_choose_path.png")

Screenshot2Ops ==
    ScreenshotStart(TRUE) \o << OpDraw("img") >>
    \o SaveAndReport(ScreenshotsDir, "02_daily_checkin.png")

Screenshot3Ops ==
    ScreenshotStart(FALSE) \o << OpDraw("img") >>
    \o Concat([i \in 1..5 |-> << OpFont(28), OpDraw("img") >>])
    \o SaveAndReport(ScreenshotsDir, "03_year_visualized.png")

Screenshot4Ops ==
    ScreenshotStart(TRUE) \o << OpFont(42), OpDraw("img"), OpFont(100), OpDraw("img") >>
    \o SaveAndReport(ScreenshotsDir, "04_stay_motivated.png")

Screenshot5Ops ==
    ScreenshotStart(TRUE) \o << OpDraw("img"), OpFont(100), OpDraw("img") >>
    \o SaveAndReport(ScreenshotsDir, "05_widgets.png")

Screenshot6Ops ==
    ScreenshotStart(TRUE) \o << OpDraw("img") >>
    \o SaveAndReport(ScreenshotsDir, "06_privacy_free.png")

ScreenshotsMain ==
    << OpPrint("Generating App Store Screenshots...\n") >>
    \o Screenshot1Ops \o Screenshot2Ops \o Screenshot3Ops
    \o Screenshot4Ops \o Screenshot5Ops \o Screenshot6Ops
    \o << OpPrint("\nAll screenshots saved to: " \o ScreenshotsDir),
          OpPrint("\nScreenshot order for App Store:"),
          OpPrint("1. Choose Your Path - Hero shot"),
          OpPrint("2. Daily Check-in - Core feature"),
          OpPrint("3. Year Visualized - The grid"),
          OpPrint("4. Stay Motivated - Streaks & quotes"),
          OpPrint("5. Widgets - Home screen presence"),
          OpPrint("6. Privacy & Free - Trust & CTA") >>

Scripts ==
    {"generate_icon", "generate_logos", "generate_lifeblock_logos",
     "generate_banners", "generate_screenshots"}

Program(s) ==
    CASE s = "generate_icon" -> IconMain
      [] s = "generate_logos" -> LogosMain
      [] s = "generate_lifeblock_logos" -> LifeblockMain
      [] s = "generate_banners" -> BannersMain
      [] s = "generate_screenshots" -> ScreenshotsMain

(***************************************************************************)
(*                               get_font                                  *)
(***************************************************************************)
SFNS == "/System/Library/Fonts/SFNS.ttf"
Helvetica == "/System/Library/Fonts/Helvetica.ttc"

\* the font files that can be present on the machine
FontFiles == {SFNS, Helvetica}

\* ImageFont.truetype(path, size): raises when the file cannot be loaded
Truetype(path, size, avail) ==
    IF path \in avail
    THEN [raised |-> FALSE, path |-> path, size |-> size]
    ELSE [raised |-> TRUE, path |-> "none", size |-> 0]

\* ImageFont.load_default(): the font built into the library
LoadDefault == [raised |-> FALSE, path |-> "default", size |-> 0]

\* try: truetype(Helvetica)  except: load_default()
LogosGetFont(size, avail) ==
    LET first == Truetype(Helvetica, size, avail)
    IN  IF ~first.raised THEN first ELSE LoadDefault

LifeblockGetFont(size, avail) ==
    LET first == Truetype(Helvetica, size, avail)
    IN  IF ~first.raised THEN first ELSE LoadDefault

BannersGetFont(size, avail) ==
    LET first == Truetype(Helvetica, size, avail)
    IN  IF ~first.raised THEN first ELSE LoadDefault

\* the handler of the first except has no try of its own
ScreenshotsGetFontOneTry(size, bold, avail) ==
    LET first == IF bold THEN Truetype(SFNS, size, avail) ELSE Truetype(SFNS, size, avail)
    IN  IF ~first.raised THEN first ELSE Truetype(Helvetica, size, avail)

\* try: truetype(SFNS) (both branches of "if bold")
\* except: try: truetype(Helvetica)  except: load_default()
ScreenshotsGetFont(size, bold, avail) ==
    LET first == IF bold THEN Truetype(SFNS, size, avail) ELSE Truetype(SFNS, size, avail)
        second == Truetype(Helvetica, size, avail)
    IN  IF ~first.raised THEN first
        ELSE IF ~second.raised THEN second
        ELSE LoadDefault

\* the get_font of the running script (generate_icon has none)
GetFont(s, size, bold, avail) ==
    CASE s = "generate_logos" -> LogosGetFont(size, avail)
      [] s = "generate_lifeblock_logos" -> LifeblockGetFont(size, avail)
      [] s = "generate_banners" -> BannersGetFont(size, avail)
      [] s = "generate_screenshots" -> ScreenshotsGetFont(size, bold, avail)

(***************************************************************************)
(*                      One run of a script's main()                       *)
(*                                                                         *)
(* script   the script that runs      pc      the step main() is at        *)
(* env      the image each variable is bound to (0: unbound)               *)
(* images   the image objects created so far                               *)
(* disk     the files written so far, in the order they were written       *)
(* stdout   the lines printed         fonts   the font files present       *)
(* lastFont what the last get_font returned                                *)
(* status   "running", "done" (main returned) or "failed" (an exception    *)
(*          left main: no script has a try outside get_font)               *)
(***************************************************************************)
ImageVars == {"img", "icon", "resized"}

Cur == Program(script)[pc]

AtOp(op) ==
    /\ status = "running"
    /\ pc <= Len(Program(script))
    /\ Cur.op = op

GridIdle ==
    /\ call = [fn |-> "none"]
    /\ matrix = << >>
    /\ k = 0
    /\ last = [r \in Runs |-> NoDraw]
    /\ ndraws = [r \in Runs |-> 0]
    /\ same = TRUE
    /\ boxes = << >>
    /\ gstatus = "idle"

NewImageObject(w, h, src) ==
    [w |-> w, h |-> h, src |-> src, draws |-> 0, saves |-> 0,
     drawnAfterSave |-> FALSE, readAfterSave |-> FALSE]

\* var = Image.new(mode, (w, h), colour): a new object; the old binding of
\* var is dropped
NewImage ==
    /\ AtOp("new")
    /\ images' = Append(images, NewImageObject(Cur.w, Cur.h, 0))
    /\ env' = [env EXCEPT ![Cur.var] = Len(images) + 1]
    /\ pc' = pc + 1
    /\ UNCHANGED <<script, disk, stdout, fonts, lastFont, status>>
    /\ UNCHANGED gvars

\* get_font(size): an exception it lets out ends the run
GetFontStep ==
    /\ AtOp("get_font")
    /\ LET f == GetFont(script, Cur.size, Cur.bold, fonts)
       IN  /\ lastFont' = f
           /\ IF f.raised
              THEN status' = "failed" /\ pc' = pc
              ELSE status' = status /\ pc' = pc + 1
    /\ UNCHANGED <<script, env, images, disk, stdout, fonts>>
    /\ UNCHANGED gvars

\* draw calls on the image bound to var
Draw ==
    /\ AtOp("draw")
    /\ LET id == env[Cur.var]
       IN  images' = [images EXCEPT ![id].draws = @ + 1,
                                    ![id].drawnAfterSave = @ \/ images[id].saves > 0]
    /\ pc' = pc + 1
    /\ UNCHANGED <<script, env, disk, stdout, fonts, lastFont, status>>
    /\ UNCHANGED gvars

\* var = src.resize((w, h), Image.Resampling.LANCZOS): reads src, returns a
\* new object
Resize ==
    /\ AtOp("resize")
    /\ LET id == env[Cur.src]
       IN  images' = Append([images EXCEPT ![id].readAfterSave = @ \/ images[id].saves > 0],
                            NewImageObject(Cur.w, Cur.h, id))
    /\ env' = [env EXCEPT ![Cur.var] = Len(images) + 1]
    /\ pc' = pc + 1
    /\ UNCHANGED <<script, disk, stdout, fonts, lastFont, status>>
    /\ UNCHANGED gvars

\* var.save(f"{dir}/{file}"); the file name is the text of the step
Save ==
    /\ AtOp("save")
    /\ LET id == env[Cur.var]
       IN  /\ disk' = Append(disk, [dir |-> Cur.dir, file |-> Cur.text, img |-> id,
                                    w |-> images[id].w, h |-> images[id].h])
           /\ images' = [images EXCEPT ![id].saves = @ + 1]
    /\ pc' = pc + 1
    /\ UNCHANGED <<script, env, stdout, fonts, lastFont, status>>
    /\ UNCHANGED gvars

PrintLine ==
    /\ AtOp("print")
    /\ stdout' = Append(stdout, Cur.text)
    /\ pc' = pc + 1
    /\ UNCHANGED <<script, env, images, disk, fonts, lastFont, status>>
    /\ UNCHANGED gvars

\* an exception raised in main(): nothing catches it, the run ends at the
\* statement that raised
Raise ==
    /\ status' = "failed"
    /\ pc' = pc

\* Image.new, a draw call, resize or save raises (out of memory, the
\* directory is missing or not writable, the disk is full)
Fail ==
    /\ \E op \in {"new", "draw", "resize", "save"} : AtOp(op)
    /\ Raise
    /\ UNCHANGED <<script, env, images, disk, stdout, fonts, lastFont>>
    /\ UNCHANGED gvars

\* main() returns
Finish ==
    /\ status = "running"
    /\ pc = Len(Program(script)) + 1
    /\ status' = "done"
    /\ UNCHANGED <<script, pc, env, images, disk, stdout, fonts, lastFont>>
    /\ UNCHANGED gvars

Init ==
    /\ script \in Scripts
    /\ fonts \in SUBSET FontFiles
    /\ pc = 1
    /\ env = [v \in ImageVars |-> 0]
    /\ images = << >>
    /\ disk = << >>
    /\ stdout = << >>
    /\ lastFont = NoFont
    /\ status = "running"
    /\ GridIdle

Next ==
    \/ NewImage
    \/ GetFontStep
    \/ Draw
    \/ Resize
    \/ Save
    \/ PrintLine
    \/ Fail
    \/ Finish

Spec == Init /\ [][Next]_vars

(***************************************************************************)
(*                        Properties of the runs                           *)
(***************************************************************************)
\* the file names in the order of the calls in each main()
OutputOrder(s) ==
    CASE s = "generate_icon" ->
           <<"AppIcon-1024.png", "AppIcon-180.png", "AppIcon-120.png", "AppIcon-167.png",
             "AppIcon-152.png", "AppIcon-76.png", "AppIcon-40.png", "AppIcon-60.png",
             "AppIcon-58.png", "AppIcon-87.png", "AppIcon-80.png", "AppIcon-29.png">>
      [] s = "generate_logos" ->
           <<"logo_horizontal_dark.png", "logo_horizontal_light.png",
             "logo_stacked_dark.png", "logo_stacked_light.png",
             "icon_only_512x512.png", "icon_only_256x256.png", "icon_only_128x128.png",
             "icon_only_64x64.png", "icon_only_32x32.png",
             "favicon_32x32.png", "favicon_16x16.png",
             "logo_with_tagline.png", "wordmark_dark.png", "wordmark_light.png">>
      [] s = "generate_lifeblock_logos" ->
           <<"lifeblock_logo_horizontal_dark.png", "lifeblock_logo_horizontal_light.png",
             "lifeblock_logo_with_tagline.png",
             "lifeblock_wordmark_dark.png", "lifeblock_wordmark_light.png",
             "lifeblock_logo_stacked_dark.png">>
      [] s = "generate_screenshots" ->
           <<"01_choose_path.png", "02_daily_checkin.png", "03_year_visualized.png",
             "04_stay_motivated.png", "05_widgets.png", "06_privacy_free.png">>
      [] s = "generate_banners" ->
           <<"twitter_header_1500x500.png", "instagram_square_1080x1080.png",
             "feature_graphic_1024x500.png", "og_image_1200x630.png",
             "app_store_preview_1920x1080.png">>

FileCount(s) ==
    CASE s = "generate_icon" -> 12
      [] s = "generate_logos" -> 14
      [] s = "generate_lifeblock_logos" -> 6
      [] s = "generate_screenshots" -> 6
      [] s = "generate_banners" -> 5

FilesWritten == [j \in 1..Len(disk) |-> disk[j].file]

IsPrefix(a, b) == Len(a) <= Len(b) /\ a = SubSeq(b, 1, Len(a))

PrefixWritten ==
    /\ Len(OutputOrder(script)) = FileCount(script)
    /\ IsPrefix(FilesWritten, OutputOrder(script))
    /\ status = "done" => FilesWritten = OutputOrder(script)

NoRollbackNoRetry ==
    /\ status # "failed"
    /\ IsPrefix(disk, disk')
    /\ status' = "failed" => disk' = disk

\* C7: in every run, at every point, the files written are a prefix of the
\* script's fixed output order (12, 14, 6, 6 and 5 files); a run that
\* returns has written all of them; a failing step ends the run: it writes
\* nothing, no step follows it, and no step ever removes or changes a file
\* already written.
C7_PrefixOrder == [](PrefixWritten) /\ [][NoRollbackNoRetry]_vars

C7_Witness ==
    /\ script = "generate_logos" /\ status = "failed"
    /\ Cur.op = "save" /\ Cur.text = "icon_only_256x256.png"
    /\ Len(disk) = 5 /\ disk[5].file = "icon_only_512x512.png"

\* the font files get_font tries, in order
FontChain(s) == IF s = "generate_screenshots" THEN <<SFNS, Helvetica>> ELSE <<Helvetica>>

Loadable(s) == {i \in 1..Len(FontChain(s)) : FontChain(s)[i] \in fonts}

FirstLoadable(s) == CHOOSE i \in Loadable(s) : \A j \in Loadable(s) : i <= j

\* C8: whatever font files are present, get_font returns a font and lets no
\* exception out: the first file of its chain that loads (SFNS.ttf, then
\* Helvetica.ttc in generate_screenshots; Helvetica.ttc in the other
\* scripts), and the default font only when no file of the chain loads.
C8_FontFallback ==
    /\ status = "failed" => Cur.op # "get_font"
    /\ lastFont # NoFont =>
          /\ ~lastFont.raised
          /\ IF Loadable(script) = {}
             THEN lastFont.path = "default"
             ELSE /\ lastFont.path = FontChain(script)[FirstLoadable(script)]
                  /\ lastFont.size > 0

C8_Witness ==
    /\ script = "generate_screenshots" /\ fonts = {Helvetica}
    /\ lastFont.path = Helvetica /\ lastFont.size = 72
    /\ status = "running"

\* the images file j was made from: the saved image and what it was resized from
RECURSIVE Sources(_)
Sources(id) ==
    {id} \cup (IF images[id].src = 0 THEN {} ELSE Sources(images[id].src))

FilesOf(i) == {j \in 1..Len(disk) : i \in Sources(disk[j].img)}

ImageIds == 1..Len(images)

ExclusiveCanvas ==
    /\ \A j \in 1..Len(disk) :
          /\ images[disk[j].img].src = 0
          /\ images[disk[j].img].saves = 1
    /\ \A i \in ImageIds : ~images[i].drawnAfterSave /\ ~images[i].readAfterSave
    /\ \A i \in ImageIds : Cardinality(FilesOf(i)) <= 1

\* C9 as stated: in every script, generate_icon included, each file is saved
\* from an image created for it alone, no saved image is drawn to or read
\* again, and no image contributes to two files.
C9_Original == ExclusiveCanvas

\* C9: in the four marketing scripts each file is saved from an image
\* created by Image.new for that file alone, no saved image is drawn to or
\* read again and no image contributes to two files. In generate_icon every
\* file is saved from an image object of its own and no saved image is
\* drawn to again, but the 1024 icon is read again after its save, by
\* resize, once for each smaller file: the 11 smaller images are made from
\* it and it contributes to all 12 files; it is the only such image.
C9_CanvasOwnership ==
    /\ script # "generate_icon" => ExclusiveCanvas
    /\ script = "generate_icon" =>
          /\ \A i \in ImageIds : images[i].saves <= 1 /\ ~images[i].drawnAfterSave
          /\ \A i \in ImageIds :
                (images[i].readAfterSave \/ Cardinality(FilesOf(i)) > 1) => i = env["icon"]
          /\ \A j \in 1..Len(disk) :
                /\ images[disk[j].img].src = (IF j = 1 THEN 0 ELSE env["icon"])
                /\ \A j2 \in 1..Len(disk) : j2 # j => disk[j2].img # disk[j].img
          /\ Len(disk) >= 2 =>
                /\ images[env["icon"]].readAfterSave
                /\ FilesOf(env["icon"]) = 1..Len(disk)

C9_Witness ==
    /\ script = "generate_icon" /\ status = "done"
    /\ images[env["icon"]].readAfterSave
    /\ Cardinality(FilesOf(env["icon"])) = 12
    /\ Len(images) = 12

Digits == "0123456789"

\* the value of a one-character string, -1 when it is no digit
DigitValue(ch) ==
    IF \E d \in 1..10 : SubSeq(Digits, d, d) = ch
    THEN (CHOOSE d \in 1..10 : SubSeq(Digits, d, d) = ch) - 1
    ELSE -1

\* the number a string of decimal digits writes, -1 for any other string
RECURSIVE ParseNat(_)
ParseNat(str) ==
    IF Len(str) = 0 THEN -1
    ELSE LET d == DigitValue(SubSeq(str, Len(str), Len(str)))
         IN  IF d = -1 THEN -1
             ELSE IF Len(str) = 1 THEN d
             ELSE LET rest == ParseNat(SubSeq(str, 1, Len(str) - 1))
                  IN  IF rest = -1 THEN -1 ELSE 10 * rest + d

StartsWith(str, pre) == Len(str) >= Len(pre) /\ SubSeq(str, 1, Len(pre)) = pre

EndsWith(str, suf) ==
    Len(str) >= Len(suf) /\ SubSeq(str, Len(str) - Len(suf) + 1, Len(str)) = suf

\* positions of the one-character string ch in str
Positions(str, ch) == {i \in 1..Len(str) : SubSeq(str, i, i) = ch}

Last(S) == CHOOSE i \in S : \A j \in S : j <= i

\* "<n>x<m>" -> <<n, m>>, anything else -> << >>
ParseDims(str) ==
    LET xs == Positions(str, "x")
    IN  IF Cardinality(xs) # 1 THEN << >>
        ELSE LET p == Last(xs)
                 n == ParseNat(SubSeq(str, 1, p - 1))
                 m == ParseNat(SubSeq(str, p + 1, Len(str)))
             IN  IF n = -1 \/ m = -1 THEN << >> ELSE <<n, m>>

\* the pixel dimensions a file name encodes: AppIcon-<n>.png is n x n,
\* <purpose>_<n>x<m>.png is n x m; << >> when the name encodes none
NameDims(file) ==
    IF ~EndsWith(file, ".png") THEN << >>
    ELSE LET stem == SubSeq(file, 1, Len(file) - 4)
         IN  IF StartsWith(stem, "AppIcon-")
             THEN LET n == ParseNat(SubSeq(stem, 9, Len(stem)))
                  IN  IF n = -1 THEN << >> ELSE <<n, n>>
             ELSE LET us == Positions(stem, "_")
                  IN  IF us = {} THEN << >>
                      ELSE ParseDims(SubSeq(stem, Last(us) + 1, Len(stem)))

DimensionPrefixes ==
    {"AppIcon-", "icon_only_", "favicon_", "twitter_header_", "instagram_square_",
     "feature_graphic_", "og_image_", "app_store_preview_"}

\* C10: every file written under a name of one of the families that encode
\* pixel dimensions does encode them, and the image saved under any name
\* that encodes dimensions has exactly that width and height.
C10_NameMatchesSize ==
    \A j \in 1..Len(disk) :
        LET d == NameDims(disk[j].file)
        IN  /\ (\E pre \in DimensionPrefixes : StartsWith(disk[j].file, pre)) => d # << >>
            /\ d # << >> => disk[j].w = d[1] /\ disk[j].h = d[2]

C10_Witness ==
    /\ script = "generate_icon" /\ status = "done"
    /\ \E j \in 1..Len(disk) :
          /\ disk[j].file = "AppIcon-87.png"
          /\ NameDims(disk[j].file) = <<87, 87>>
          /\ disk[j].w = 87 /\ disk[j].h = 87

(***************************************************************************)
(*                 Further properties of the grid routines                 *)
(***************************************************************************)
CountedRoutines ==
    {"draw_grid_icon", "lb_draw_grid_icon", "draw_mini_grid", "draw_contribution_grid"}

\* the number of draws the routine is to issue for its arguments
\* (weeks is the number of columns of draw_contribution_grid)
ExpectedDraws(c) ==
    CASE c.fn \in {"draw_grid_icon", "lb_draw_grid_icon"} -> 9
      [] c.fn = "draw_mini_grid" -> c.rows * c.cols
      [] c.fn = "draw_contribution_grid" -> c.cols * 7

FixedDrawCount ==
    call.fn \in CountedRoutines =>
        /\ \A r \in Runs :
              /\ ndraws[r] = k
              /\ ndraws[r] <= ExpectedDraws(call)
              /\ gstatus = "done" => ndraws[r] = ExpectedDraws(call)
        /\ Cardinality({<<boxes[i].row, boxes[i].col>> : i \in 1..Len(boxes)}) = Len(boxes)
        /\ gstatus # "failed"
        /\ gstatus = "running" /\ k < ExpectedDraws(call) => Results(call, matrix, k) # {}

\* every step is the next iteration, or the return once all are done
CountsUp ==
    call.fn \in CountedRoutines =>
        \/ k < ExpectedDraws(call) /\ k' = k + 1 /\ gstatus' = "running"
        \/ k = ExpectedDraws(call) /\ k' = k /\ gstatus = "running" /\ gstatus' = "done"

\* C11: every grid routine returns after a fixed number of draws, one per
\* loop iteration whichever colour branch the iteration takes: 9 for
\* draw_grid_icon, rows*cols for draw_mini_grid, weeks*7 for
\* draw_contribution_grid; each step of a routine is its next iteration
\* (which can always run) or, after the last one, its return; no cell is
\* drawn twice.
C11_FixedDraws == [](FixedDrawCount) /\ [][CountsUp]_vars

C11_Witness ==
    /\ call.fn = "draw_contribution_grid" /\ call.site = "create_screenshot_3"
    /\ gstatus = "done"
    /\ ndraws[1] = 182 /\ ndraws[2] = 182
    /\ last[1].branch = "bright" /\ last[2].branch = "dark"

RandomRoutines == {"draw_mini_grid", "draw_contribution_grid"}

\* the threshold the routine compares random.random() with at column (week) j
Threshold(c, j) ==
    IF c.fn = "draw_mini_grid" THEN MiniThreshold(j, c.cols) ELSE ContribThreshold(j, c.cols)

\* 0.2 + 0.6*col/cols and 0.3 + 0.7*week/weeks over a common denominator
StatedThreshold(c, j) ==
    IF c.fn = "draw_mini_grid" THEN Rat(2 * c.cols + 6 * j, 10 * c.cols)
    ELSE Rat(3 * c.cols + 7 * j, 10 * c.cols)

\* the column (week) of loop iteration i
ColumnOf(c, i) == IF c.fn = "draw_mini_grid" THEN i % c.cols ELSE i \div 7

Branches(S) == {r.draw.branch : r \in S}

\* C12: in the randomized grids the threshold of the bright branch is
\* 0.2 + 0.6*col/cols (0.3 + 0.7*week/weeks), strictly between 0 and 1 at
\* every column (week) of the grid and strictly increasing in it; every
\* cell can take either branch.
C12_Threshold ==
    call.fn \in RandomRoutines =>
        /\ \A j \in 0..(call.cols - 1) :
              /\ Threshold(call, j) = StatedThreshold(call, j)
              /\ RLess(RInt(0), Threshold(call, j))
              /\ RLess(Threshold(call, j), RInt(1))
              /\ j + 1 < call.cols => RLess(Threshold(call, j), Threshold(call, j + 1))
        /\ gstatus = "running" /\ k < NCells(call) =>
              Branches(Results(call, matrix, k)) = {"bright", "dark"}
        /\ \A r \in Runs : last[r] # NoDraw => last[r].branch \in {"bright", "dark"}

C12_Witness ==
    /\ call.fn = "draw_contribution_grid" /\ call.site = "create_screenshot_3"
    /\ last[1].col = 25 /\ last[1].branch = "dark"
    /\ last[2].col = 25 /\ last[2].branch = "bright"
    /\ Threshold(call, 25) = Rat(253, 260)

\* C13: in draw_mini_grid a cell of the bright branch is filled with one of
\* GREEN_DARK, GREEN_MED, GREEN_LIGHT, GREEN_BRIGHT (levels[1:]) and a cell
\* of the other branch with CARD_BG (levels[0]); in
\* draw_contribution_grid a cell of the bright branch is filled with one of
\* GREEN_MED, GREEN_LIGHT, GREEN_BRIGHT (levels[1:]), never with GREEN_DARK
\* or CARD_BG, and a cell of the other branch with GREEN_DARK or CARD_BG.
C13_BranchColours ==
    \A r \in Runs :
        last[r] # NoDraw =>
            /\ call.fn = "draw_mini_grid" =>
                  /\ last[r].branch = "bright" =>
                        last[r].fill \in {<<14, 68, 41>>, <<0, 109, 50>>, <<38, 166, 65>>, <<57, 211, 83>>}
                  /\ last[r].branch # "bright" => last[r].fill = <<22, 27, 34>>
            /\ call.fn = "draw_contribution_grid" =>
                  /\ last[r].branch = "bright" =>
                        last[r].fill \in {<<0, 109, 50>>, <<38, 166, 65>>, <<57, 211, 83>>}
                  /\ last[r].branch # "bright" =>
                        last[r].fill \in {<<14, 68, 41>>, <<22, 27, 34>>}

C13_Witness ==
    /\ call.fn = "draw_contribution_grid"
    /\ last[1].branch = "dark" /\ last[1].fill = <<14, 68, 41>>
    /\ last[2].branch = "bright" /\ last[2].fill = <<57, 211, 83>>

\* the level create_icon looks up for the cell (row, col), rows counted from the top
LevelAt(row, col) == matrix[row + 1][col + 1]

AllLevels == {LevelAt(row, col) : row \in 0..2, col \in 0..2}

\* C14: the level matrix of create_icon gets brighter from bottom-left to
\* top-right: a level never decreases one step up (row - 1) or one step
\* right (col + 1), the bottom-left cell has the lowest level and the
\* top-right cell the highest.
C14_Gradient ==
    call.fn = "create_icon" =>
        /\ \A i \in 1..Len(boxes) :
              LET row == boxes[i].row
                  col == boxes[i].col
              IN  /\ row > 0 => LevelAt(row - 1, col) >= LevelAt(row, col)
                  /\ col < 2 => LevelAt(row, col + 1) >= LevelAt(row, col)
        /\ gstatus = "done" =>
              \A v \in AllLevels : LevelAt(2, 0) <= v /\ v <= LevelAt(0, 2)

\* C15: for every size, every cell create_icon draws is the rectangle the
\* grid layout gives for origin (o, o), o = padding + gap/2, cell side
\* actual_cell = cell_size - gap and the same gap: top-left
\* (o + col*(actual_cell + gap), o + row*(actual_cell + gap)), side
\* actual_cell.
C15_IconIsGrid ==
    call.fn = "create_icon" =>
        LET c == IconConfig(call.size)
            o == RAdd(c.padding, RDiv(c.gap, RInt(2)))
        IN  /\ c.actual_cell = RSub(c.cell_size, c.gap)
            /\ \A r \in Runs :
                  last[r] # NoDraw =>
                      /\ last[r].box = GridBox(o, o, c.actual_cell, c.gap, last[r].row, last[r].col)
                      /\ Width(last[r].box) = c.actual_cell
                      /\ RSub(last[r].box[4], last[r].box[2]) = c.actual_cell
            /\ gstatus = "done" => Len(boxes) = 9

C15_Witness ==
    /\ call.fn = "create_icon" /\ call.size = 29 /\ gstatus = "done"
    /\ last[1].row = 2 /\ last[1].col = 2
    /\ last[1].box = GridBox(Rat(4756, 1000), Rat(4756, 1000), Rat(17864, 3000), Rat(812, 1000), 2, 2)

Lefts == {boxes[i].box[1] : i \in 1..Len(boxes)}
Tops == {boxes[i].box[2] : i \in 1..Len(boxes)}
Rights == {boxes[i].box[3] : i \in 1..Len(boxes)}
Bottoms == {boxes[i].box[4] : i \in 1..Len(boxes)}

RMin(S) == CHOOSE a \in S : \A b \in S : RLeq(a, b)
RMax(S) == CHOOSE a \in S : \A b \in S : RLeq(b, a)

\* C16: with padding = 0.15*size, every cell create_icon draws lies inside
\* [padding, size - padding] in both axes, and in the finished icon the
\* nearest cell is equally far from the left, right, top and bottom edge.
C16_Padding ==
    call.fn = "create_icon" =>
        LET size == RInt(call.size)
            padding == Rat(15 * call.size, 100)
        IN  /\ \A i \in 1..Len(boxes) :
                  /\ RLeq(padding, boxes[i].box[1]) /\ RLeq(boxes[i].box[3], RSub(size, padding))
                  /\ RLeq(padding, boxes[i].box[2]) /\ RLeq(boxes[i].box[4], RSub(size, padding))
                  /\ RLess(boxes[i].box[1], boxes[i].box[3])
                  /\ RLess(boxes[i].box[2], boxes[i].box[4])
            /\ gstatus = "done" =>
                  /\ RMin(Lefts) = RSub(size, RMax(Rights))
                  /\ RMin(Tops) = RSub(size, RMax(Bottoms))
                  /\ RMin(Lefts) = RMin(Tops)

C16_Witness ==
    /\ call.fn = "create_icon" /\ call.size = 1024 /\ gstatus = "done"
    /\ RMin(Lefts) = Rat(167936, 1000)
    /\ RMax(Rights) = Rat(856064, 1000)
    /\ RMin(Tops) = Rat(167936, 1000)
    /\ RMax(Bottoms) = Rat(856064, 1000)

\* C17: the grid of a stacked logo spans 3*icon_size + 2*icon_gap in both
\* axes; its left margin and its right margin on the canvas differ by at
\* most 1, and both are 115 for width 400, icon_size 50, icon_gap 10.
C17_Centred ==
    gstatus = "done" =>
        LET total == RInt(3 * call.cell_size[1] + 2 * call.gap[1])
            left == RMin(Lefts)
            right == RSub(RInt(call.W), RMax(Rights))
        IN  /\ RSub(RMax(Rights), RMin(Lefts)) = total
            /\ RSub(RMax(Bottoms), RMin(Tops)) = total
            /\ RLeq(RAbsDiff(left, right), RInt(1))
            /\ (call.W = 400 /\ call.cell_size = RInt(50) /\ call.gap = RInt(10)) =>
                  left = RInt(115) /\ right = RInt(115)

C17_Witness ==
    /\ gstatus = "done" /\ call.fn = "lb_draw_grid_icon"
    /\ call.W = 399 /\ call.cell_size = RInt(50) /\ call.gap = RInt(10)
    /\ RMin(Lefts) = RInt(114)
    /\ RSub(RInt(call.W), RMax(Rights)) = RInt(115)

\* a rectangle inside the W x H canvas
OnCanvas(b, W, H) ==
    /\ RLeq(RInt(0), b[1]) /\ RLeq(b[3], RInt(W))
    /\ RLeq(RInt(0), b[2]) /\ RLeq(b[4], RInt(H))

\* C18: every cell drawn by a grid call the scripts make lies inside the
\* canvas it is drawn on: 0 <= x, x + cellSize <= width, 0 <= y,
\* y + cellSize <= height.
C18_InsideCanvas ==
    call \in ActualCalls =>
        \A i \in 1..Len(boxes) : OnCanvas(boxes[i].box, call.W, call.H)

\* the same for every grid call but the one of create_screenshot_3
InsideCanvasButScreenshot3 ==
    (call \in ActualCalls /\ call.site # "create_screenshot_3") =>
        \A i \in 1..Len(boxes) : OnCanvas(boxes[i].box, call.W, call.H)

FourCopies == {"create_icon", "draw_grid_icon", "lb_draw_grid_icon", "feature_icon"}

AnyEntropy == CHOOSE e \in Entropy : TRUE

\* what the loop body of each copy gives for the cell (row, col) with its own
\* matrix literal
CopyCell(fn, row, col) ==
    CASE fn = "create_icon" -> CreateIconCell(1024, grid_levels, row, col, AnyEntropy)
      [] fn = "draw_grid_icon" -> DrawGridIconCell(RInt(0), RInt(0), RInt(1), RInt(0), pattern, row, col, AnyEntropy)
      [] fn = "lb_draw_grid_icon" -> LbDrawGridIconCell(RInt(0), RInt(0), RInt(1), RInt(0), pattern, row, col, AnyEntropy)
      [] fn = "feature_icon" -> FeatureIconCell(RInt(0), RInt(0), RInt(1), RInt(0), pattern, row, col, AnyEntropy)

\* C19: the four copies of the 3x3 icon fill every cell (row, col) with the
\* same RGB triple, every palette index they use is in 0..3, and no copy
\* fails on a palette lookup.
C19_SameIcon ==
    call.fn \in FourCopies =>
        /\ gstatus # "failed"
        /\ \A row \in 0..2, col \in 0..2 :
              /\ grid_levels[row + 1][col + 1] - 1 \in 0..3
              /\ pattern[row + 1][col + 1] \in 0..3
        /\ \A r \in Runs :
              last[r] # NoDraw =>
                  \A fn \in FourCopies :
                      /\ ~CopyCell(fn, last[r].row, last[r].col).raised
                      /\ CopyCell(fn, last[r].row, last[r].col).draw.fill = last[r].fill

C19_Witness ==
    /\ call.fn = "create_icon" /\ gstatus = "done"
    /\ last[1].row = 2 /\ last[1].col = 2
    /\ last[1].fill = <<57, 211, 83>>
    /\ CopyCell("feature_icon", 2, 2).draw.fill = <<57, 211, 83>>

(***************************************************************************)
(*                     Properties of the progress lines                    *)
(***************************************************************************)
IsCreatedLine(line) == StartsWith(line, "Created: ")

IsClosingLine(line) == StartsWith(line, "\nAll ")

\* the names reported by the "Created: <name>" lines, in the order printed
CreatedNames ==
    LET created == SelectSeq(stdout, IsCreatedLine)
    IN  [j \in 1..Len(created) |-> SubSeq(created[j], Len("Created: ") + 1, Len(created[j]))]

ClosingLines == SelectSeq(stdout, IsClosingLine)

ReportsFollowWrites ==
    /\ IsPrefix(CreatedNames, FilesWritten)
    /\ Len(FilesWritten) - Len(CreatedNames) \in {0, 1}
    /\ \A i, j \in 1..Len(CreatedNames) : CreatedNames[i] = CreatedNames[j] => i = j
    /\ Len(ClosingLines) <= 1
    /\ ClosingLines # << >> =>
          /\ FilesWritten = OutputOrder(script)
          /\ CreatedNames = OutputOrder(script)
    /\ status = "done" => CreatedNames = FilesWritten /\ Len(ClosingLines) = 1

\* a line once printed stays, and a "Created:" line is printed by the step
\* that follows the save of the file it names
ReportStep ==
    /\ IsPrefix(stdout, stdout')
    /\ (stdout' # stdout /\ IsCreatedLine(stdout'[Len(stdout')])) =>
          /\ disk' = disk /\ disk # << >>
          /\ stdout'[Len(stdout')] = "Created: " \o disk[Len(disk)].file
          /\ Len(CreatedNames) = Len(disk) - 1

\* C20: in every script a line "Created: <name>" is printed only after the
\* save of the file of that name has returned, once per file and in the
\* order of the writes, and the closing line "All ... saved/generated" is
\* printed only after every output file of the script is written.
C20_ProgressLines == [](ReportsFollowWrites) /\ [][ReportStep]_vars

C20_Witness ==
    /\ script = "generate_lifeblock_logos" /\ status = "running"
    /\ FilesWritten = SubSeq(OutputOrder(script), 1, 4)
    /\ CreatedNames = SubSeq(OutputOrder(script), 1, 3)
    /\ ClosingLines = << >>

(***************************************************************************)
(*                     Properties of the output paths                      *)
(***************************************************************************)
\* the path a save is given: f"{OUTPUT_DIR}/{name}"
PathOf(d) == d.dir \o "/" \o d.file

PathsWritten == [j \in 1..Len(disk) |-> PathOf(disk[j])]

DistinctPaths ==
    \A i, j \in 1..Len(disk) : PathsWritten[i] = PathsWritten[j] => i = j

\* a save writes a path no earlier save of the run has written
SaveIsFresh ==
    disk' # disk =>
        /\ Len(disk') = Len(disk) + 1 /\ SubSeq(disk', 1, Len(disk)) = disk
        /\ \A j \in 1..Len(disk) : PathsWritten[j] # PathOf(disk'[Len(disk')])

\* C21: within one run of a script every save targets a path of its own, so
\* no output of the run overwrites another output of the same run.
C21_DistinctPaths == [](DistinctPaths) /\ [][SaveIsFresh]_vars

C21_Witness ==
    /\ script = "generate_logos" /\ status = "done"
    /\ Len(disk) = 14
    /\ \E i, j \in 1..Len(disk) :
          /\ disk[i].file = "icon_only_32x32.png"
          /\ disk[j].file = "favicon_32x32.png"
          /\ disk[i].dir = disk[j].dir
    /\ \E i, j \in 1..Len(disk) :
          /\ disk[i].file = "wordmark_dark.png"
          /\ disk[j].file = "wordmark_light.png"

==========================================================================
